---- MODULE Spec2Model ----
(***************************************************************************)
(* Codeviz backend: the repository analysis pipeline (parse_repo,          *)
(* create_edge, get_directory_structure in services/parser_service.py),    *)
(* the repository lifecycle (services/file_service.py) and the session     *)
(* state of the HTTP layer (main.py).                                      *)
(*                                                                         *)
(* Paths, file names and import references are strings; the string         *)
(* methods the code uses (endswith, startswith, in, split, replace, lower, *)
(* f-string concatenation) are defined character by character below.      *)
(***************************************************************************)
EXTENDS Integers, Sequences, FiniteSets, TLC

(***************************************************************************)
(* Python string methods                                                   *)
(***************************************************************************)

\* s[i:j] with 0-based half-open bounds, as Python slices
Slice(s, i, j) == SubSeq(s, i + 1, j)

\* str.endswith(suffix)
EndsWith(s, suffix) ==
    /\ Len(suffix) <= Len(s)
    /\ Slice(s, Len(s) - Len(suffix), Len(s)) = suffix

\* str.startswith(prefix)
StartsWith(s, prefix) ==
    /\ Len(prefix) <= Len(s)
    /\ Slice(s, 0, Len(prefix)) = prefix

\* the `sub in s` operator on strings
Contains(s, sub) ==
    \E i \in 0..(Len(s) - Len(sub)) : Slice(s, i, i + Len(sub)) = sub

\* the offsets at which sep occurs in s
Occurrences(s, sep) ==
    {i \in 0..(Len(s) - Len(sep)) : Slice(s, i, i + Len(sep)) = sep}

Max(S) == CHOOSE x \in S : \A y \in S : y <= x

Min(S) == CHOOSE x \in S : \A y \in S : x <= y

\* s.split(sep)[-1]: what follows the last occurrence of sep (all of s without one)
SplitLast(s, sep) ==
    IF Occurrences(s, sep) = {}
    THEN s
    ELSE Slice(s, Max(Occurrences(s, sep)) + Len(sep), Len(s))

\* str.replace(old, new): every non-overlapping occurrence, left to right
RECURSIVE Replace(_, _, _)
Replace(s, old, new) ==
    IF Occurrences(s, old) = {}
    THEN s
    ELSE LET i == Min(Occurrences(s, old))
         IN  Slice(s, 0, i) \o new \o Replace(Slice(s, i + Len(old), Len(s)), old, new)

\* code points in ascending order, for the characters file names are drawn from
CodeOrder == "-./0123456789ABCDEFGHIJKLMNOPQRSTUVWXYZ_abcdefghijklmnopqrstuvwxyz"

UpperCase == "ABCDEFGHIJKLMNOPQRSTUVWXYZ"

LowerCase == "abcdefghijklmnopqrstuvwxyz"

\* ord(c), up to an order-preserving renumbering
Ord(c) == CHOOSE i \in 1..Len(CodeOrder) : SubSeq(CodeOrder, i, i) = c

\* str.lower() of one character
LowerChar(c) ==
    IF \E i \in 1..Len(UpperCase) : SubSeq(UpperCase, i, i) = c
    THEN LET i == CHOOSE k \in 1..Len(UpperCase) : SubSeq(UpperCase, k, k) = c
         IN  SubSeq(LowerCase, i, i)
    ELSE c

\* str.lower()
RECURSIVE Lower(_)
Lower(s) ==
    IF s = "" THEN "" ELSE LowerChar(SubSeq(s, 1, 1)) \o Lower(Slice(s, 1, Len(s)))

\* s < t on strings: lexicographic by code point
RECURSIVE StrLess(_, _)
StrLess(s, t) ==
    IF t = "" THEN FALSE
    ELSE IF s = "" THEN TRUE
    ELSE LET a == Ord(SubSeq(s, 1, 1))
             b == Ord(SubSeq(t, 1, 1))
         IN  IF a /= b THEN a < b
             ELSE StrLess(Slice(s, 1, Len(s)), Slice(t, 1, Len(t)))

(***************************************************************************)
(* The repository on disk and its history                                  *)
(*                                                                         *)
(* A directory entry is a record [name, isdir, readable, items, content];  *)
(* items is the directory's listing in os.listdir order.  A file's content *)
(* is what the code reads from it: the number of lines, the nodes          *)
(* ast.walk yields for a Python file, the matches re.findall returns for a *)
(* Java or JavaScript/TypeScript file.                                     *)
(***************************************************************************)

NoContent == [readable |-> TRUE, loc |-> 0, parses |-> TRUE, ast |-> <<>>, matches |-> <<>>]

File(name, content) ==
    [name |-> name, isdir |-> FALSE, readable |-> TRUE, items |-> <<>>, content |-> content]

Dir(name, readable, items) ==
    [name |-> name, isdir |-> TRUE, readable |-> readable, items |-> items,
     content |-> NoContent]

\* the Module node ast.walk yields first, and any node that is no import
OtherNode == [type |-> "Other", names |-> <<>>, module |-> ""]

\* ast.Import: `import n1, n2, ...`
Import(names) == [type |-> "Import", names |-> names, module |-> ""]

\* ast.ImportFrom: `from module import ...`; module is None (here "") for `from . import y`
ImportFrom(module) == [type |-> "ImportFrom", names |-> <<"x">>, module |-> module]

\* a Python file of the given statements, one per line
PyFile(stmts) ==
    [readable |-> TRUE, loc |-> Len(stmts), parses |-> TRUE,
     ast |-> <<OtherNode>> \o stmts, matches |-> <<>>]

\* a Python file ast.parse rejects
PyBroken == [readable |-> TRUE, loc |-> 1, parses |-> FALSE, ast |-> <<>>, matches |-> <<>>]

\* a Java or JavaScript file, by the matches of the code's regular expression
RegexFile(matches) ==
    [readable |-> TRUE, loc |-> Len(matches), parses |-> TRUE, ast |-> <<>>,
     matches |-> matches]

\* a text file of n lines; unreadable when open() raises
TextFile(n, readable) ==
    [readable |-> readable, loc |-> n, parses |-> TRUE, ast |-> <<>>, matches |-> <<>>]

\* os.path.join(root, name), relative to the repository root and with "/" separators
JoinPath(prefix, name) == IF prefix = "" THEN name ELSE prefix \o "/" \o name

\* file.endswith((".py", ".java", ".js", ".jsx", ".ts", ".tsx"))
SourceExtensions == {".py", ".java", ".js", ".jsx", ".ts", ".tsx"}

IsSourceFile(file) == \E ext \in SourceExtensions : EndsWith(file, ext)

\* os.walk(repo_path): top-down, a directory's files before its subdirectories,
\* a directory that cannot be listed skipped; yields [rel_path, file, content]
RECURSIVE Walk(_, _)
RECURSIVE WalkSubdirs(_, _, _)
WalkSubdirs(items, prefix, i) ==
    IF i > Len(items) THEN <<>>
    ELSE (IF items[i].isdir THEN Walk(items[i], JoinPath(prefix, items[i].name)) ELSE <<>>)
         \o WalkSubdirs(items, prefix, i + 1)

RECURSIVE WalkFiles(_, _, _)
WalkFiles(items, prefix, i) ==
    IF i > Len(items) THEN <<>>
    ELSE (IF items[i].isdir THEN <<>>
          ELSE <<[rel_path |-> JoinPath(prefix, items[i].name), file |-> items[i].name,
                  content |-> items[i].content]>>)
         \o WalkFiles(items, prefix, i + 1)

Walk(dir, prefix) ==
    IF ~dir.readable THEN <<>>
    ELSE WalkFiles(dir.items, prefix, 1) \o WalkSubdirs(dir.items, prefix, 1)

(***************************************************************************)
(* parse_repo, stage 1: git history                                        *)
(*                                                                         *)
(* The history is a record [opens, entries, raises_after]: whether         *)
(* Repo(repo_path) succeeds, the entries repo.head.commit.tree.traverse()  *)
(* yields ([path, type, history, lookup_ok]: history is the number of      *)
(* commits that touch the path), and the number of entries yielded before  *)
(* the traversal raises (-1: it does not raise).                           *)
(***************************************************************************)

NoHistory == [opens |-> FALSE, entries |-> <<>>, raises_after |-> -1]

\* the cap of the per-path history lookup
HistoryCap == 50

\* len(list(repo.iter_commits(paths=path, max_count=max_count)))
\* the lookup without its cap
IterCommitsUncapped(history, max_count) == history

IterCommits(history, max_count) == IF history < max_count THEN history ELSE max_count

\* the loop without its inner try: a failing lookup ends the traversal
TraversedToFirstFailure(git) ==
    LET all  == IF ~git.opens THEN <<>>
                ELSE IF git.raises_after = -1 THEN git.entries
                ELSE SubSeq(git.entries, 1, git.raises_after)
        bad  == {i \in 1..Len(all) : all[i].type = "blob" /\ ~all[i].lookup_ok}
    IN  IF bad = {} THEN all ELSE SubSeq(all, 1, Min(bad) - 1)

\* the entries the loop body runs for before the loop ends or raises
Traversed(git) ==
    IF ~git.opens THEN <<>>
    ELSE IF git.raises_after = -1 THEN git.entries
    ELSE SubSeq(git.entries, 1, git.raises_after)

\* commit_counts after the outer try block
AnalyzeHistory(git) ==
    LET done  == Traversed(git)
        blobs == {i \in 1..Len(done) : done[i].type = "blob"}
    IN  [path \in {done[i].path : i \in blobs} |->
            LET e == done[CHOOSE i \in blobs : done[i].path = path]
            IN  IF e.lookup_ok THEN IterCommits(e.history, HistoryCap) ELSE 0]

\* commit_counts.get(rel_path, 0)
GetOrZero(counts, key) == IF key \in DOMAIN counts THEN counts[key] ELSE 0

(***************************************************************************)
(* parse_repo, stage 2: the file inventory                                 *)
(***************************************************************************)

\* sum(1 for _ in f), 0 when open() raises
CountLines(content) == IF content.readable THEN content.loc ELSE 0

RECURSIVE BuildNodes(_, _, _)
BuildNodes(walked, counts, i) ==
    IF i > Len(walked) THEN <<>>
    ELSE (IF IsSourceFile(walked[i].file)
          THEN <<[id |-> walked[i].rel_path, label |-> walked[i].file,
                  data |-> [loc |-> CountLines(walked[i].content),
                            churn |-> GetOrZero(counts, walked[i].rel_path)]]>>
          ELSE <<>>)
         \o BuildNodes(walked, counts, i + 1)

(***************************************************************************)
(* parse_repo, stage 3: import extraction and edge resolution              *)
(***************************************************************************)

\* the condition of create_edge's if statement
Matches(known_file, target_suffix) ==
    \/ EndsWith(known_file, target_suffix)
    \/ /\ Contains(known_file, target_suffix)
       /\ StartsWith(SplitLast(known_file, "/"), target_suffix)

\* an edge to the reference itself rather than to the file it resolved to
NewEdgeToSuffix(source, known_file, target_suffix) ==
    [id |-> source \o "-" \o target_suffix, source |-> source, target |-> target_suffix,
     isCyclic |-> FALSE]

NewEdge(source, known_file, target_suffix) ==
    [id |-> source \o "-" \o known_file, source |-> source, target |-> known_file,
     isCyclic |-> FALSE]

\* the loop without the source check
RECURSIVE CreateEdgeFromAnySource(_, _, _, _, _)
CreateEdgeFromAnySource(source, target_suffix, order, edges, i) ==
    IF i > Len(order) THEN edges
    ELSE IF Matches(order[i], target_suffix)
    THEN Append(edges, NewEdge(source, order[i], target_suffix))
    ELSE CreateEdgeFromAnySource(source, target_suffix, order, edges, i + 1)

\* the loop with the break one level out: it ends at the first match, the source included
RECURSIVE CreateEdgeFromFirstMatch(_, _, _, _, _)
CreateEdgeFromFirstMatch(source, target_suffix, order, edges, i) ==
    IF i > Len(order) THEN edges
    ELSE IF Matches(order[i], target_suffix)
    THEN (IF source /= order[i]
          THEN Append(edges, NewEdge(source, order[i], target_suffix))
          ELSE edges)
    ELSE CreateEdgeFromFirstMatch(source, target_suffix, order, edges, i + 1)

\* create_edge's loop from position i of the iteration order of file_map
RECURSIVE CreateEdgeFrom(_, _, _, _, _)
CreateEdgeFrom(source, target_suffix, order, edges, i) ==
    IF i > Len(order) THEN edges
    ELSE IF Matches(order[i], target_suffix) /\ source /= order[i]
    THEN Append(edges, NewEdge(source, order[i], target_suffix))
    ELSE CreateEdgeFrom(source, target_suffix, order, edges, i + 1)

create_edge(source, target_suffix, order, edges) ==
    CreateEdgeFrom(source, target_suffix, order, edges, 1)

\* `imported` after the if/elif of the Python branch; "" stands for None
PyImported(ast_node) ==
    IF ast_node.type = "Import" THEN ast_node.names[Len(ast_node.names)]
    ELSE IF ast_node.type = "ImportFrom" THEN ast_node.module
    ELSE ""

\* the Python branch: one target per node with a truthy `imported`
RECURSIVE PyTargets(_, _)
PyTargets(ast, i) ==
    IF i > Len(ast) THEN <<>>
    ELSE (IF PyImported(ast[i]) /= ""
          THEN <<Replace(PyImported(ast[i]), ".", "/") \o ".py">>
          ELSE <<>>)
         \o PyTargets(ast, i + 1)

\* the Java branch: imp.split(".")[-1] + ".java" per match
JavaTargets(matches) == [i \in 1..Len(matches) |-> SplitLast(matches[i], ".") \o ".java"]

\* the JavaScript/TypeScript branch; a match is the pair of the regex's two groups
RECURSIVE JsTargets(_, _)
JsTargets(matches, i) ==
    IF i > Len(matches) THEN <<>>
    ELSE LET imp == IF matches[i][1] /= "" THEN matches[i][1] ELSE matches[i][2]
         IN  (IF imp /= ""
              THEN <<Replace(Replace(SplitLast(imp, "/"), ".js", ""), ".ts", "")>>
              ELSE <<>>)
             \o JsTargets(matches, i + 1)

\* the target suffixes one node hands to create_edge, in order
Targets(file_path, content) ==
    IF ~content.readable THEN <<>>
    ELSE IF EndsWith(file_path, ".py")
    THEN (IF content.parses THEN PyTargets(content.ast, 1) ELSE <<>>)
    ELSE IF EndsWith(file_path, ".java") THEN JavaTargets(content.matches)
    ELSE IF \E ext \in {".js", ".jsx", ".ts", ".tsx"} : EndsWith(file_path, ext)
    THEN JsTargets(content.matches, 1)
    ELSE <<>>

RECURSIVE EdgesOfTargets(_, _, _, _, _)
EdgesOfTargets(source, targets, order, edges, i) ==
    IF i > Len(targets) THEN edges
    ELSE EdgesOfTargets(source, targets, order,
                        create_edge(source, targets[i], order, edges), i + 1)

\* open(os.path.join(repo_path, file_path)).read(), as the content record
ContentAt(root, file_path) ==
    LET walked == Walk(root, "")
    IN  walked[CHOOSE i \in 1..Len(walked) : walked[i].rel_path = file_path].content

\* what stage 3 extracts from each node's file, before any edge is resolved
Extracted(root, nodes) ==
    [i \in 1..Len(nodes) |-> Targets(nodes[i].id, ContentAt(root, nodes[i].id))]

\* the loop over nodes of stage 3
RECURSIVE EdgesOfNodes(_, _, _, _, _)
EdgesOfNodes(nodes, extracted, order, edges, i) ==
    IF i > Len(nodes) THEN edges
    ELSE EdgesOfNodes(nodes, extracted, order,
                      EdgesOfTargets(nodes[i].id, extracted[i], order, edges, 1),
                      i + 1)

\* the orders in which `for known_file in file_map` may visit a set
IterationOrders(S) ==
    {o \in [1..Cardinality(S) -> S] : \A i, j \in DOMAIN o : o[i] = o[j] => i = j}

(***************************************************************************)
(* parse_repo, stage 4: cycle detection                                    *)
(***************************************************************************)

\* the arcs of G after G.add_edge for every edge
Arcs(edges) == {<<edges[i].source, edges[i].target>> : i \in 1..Len(edges)}

\* the simple paths of exactly k vertices
RECURSIVE SimplePaths(_, _)
SimplePaths(arcs, k) ==
    IF k = 1 THEN {<<a[1]>> : a \in arcs} \cup {<<a[2]>> : a \in arcs}
    ELSE {Append(p, a[2]) : <<p, a>> \in
             {pa \in SimplePaths(arcs, k - 1) \X arcs :
                 /\ pa[2][1] = pa[1][Len(pa[1])]
                 /\ \A j \in 1..Len(pa[1]) : pa[1][j] /= pa[2][2]}}

\* nx.simple_cycles(G): the vertex sequences of the elementary cycles (here every
\* rotation of each cycle, which names the same consecutive pairs)
SimpleCycles(arcs) ==
    LET n == Cardinality({a[1] : a \in arcs} \cup {a[2] : a \in arcs})
    IN  {p \in UNION {SimplePaths(arcs, k) : k \in 1..n} : <<p[Len(p)], p[1]>> \in arcs}

\* the f-string f"{a}-{b}" that names a relation
RelationKey(a, b) == a \o "-" \o b

\* cyclic_edges
CyclicEdges(edges) ==
    UNION {{RelationKey(c[i], c[(i % Len(c)) + 1]) : i \in 1..Len(c)} :
              c \in SimpleCycles(Arcs(edges))}

\* the final loop: every edge's isCyclic set from cyclic_edges
TagEdges(edges) ==
    LET cyclic == CyclicEdges(edges)
    IN  [i \in 1..Len(edges) |->
            [edges[i] EXCEPT !.isCyclic = RelationKey(edges[i].source, edges[i].target) \in cyclic]]

(***************************************************************************)
(* get_directory_structure                                                 *)
(***************************************************************************)

\* the sort key without lower()
KeyLessCaseSensitive(a, b) ==
    \/ a.isdir /\ ~b.isdir
    \/ a.isdir = b.isdir /\ StrLess(a.name, b.name)

\* the sort key (not isdir, name.lower()) of a is less than that of b
KeyLess(a, b) ==
    \/ a.isdir /\ ~b.isdir
    \/ a.isdir = b.isdir /\ StrLess(Lower(a.name), Lower(b.name))

\* list.sort is stable: an item goes after every item whose key is not greater
RECURSIVE InsertByKey(_, _)
InsertByKey(sorted, item) ==
    IF sorted = <<>> THEN <<item>>
    ELSE IF KeyLess(item, sorted[Len(sorted)])
    THEN Append(InsertByKey(SubSeq(sorted, 1, Len(sorted) - 1), item), sorted[Len(sorted)])
    ELSE Append(sorted, item)

RECURSIVE SortItems(_, _)
SortItems(items, n) ==
    IF n = 0 THEN <<>> ELSE InsertByKey(SortItems(items, n - 1), items[n])

RECURSIVE get_directory_structure(_)
RECURSIVE Children(_, _)
Children(items, i) ==
    IF i > Len(items) THEN <<>>
    ELSE (IF StartsWith(items[i].name, ".") THEN <<>>
          ELSE IF items[i].isdir THEN <<get_directory_structure(items[i])>>
          ELSE <<[name |-> items[i].name, type |-> "file"]>>)
         \o Children(items, i + 1)

get_directory_structure(dir) ==
    [name |-> dir.name, type |-> "folder",
     children |-> IF dir.readable
                  THEN Children(SortItems(dir.items, Len(dir.items)), 1)
                  ELSE <<>>]

(***************************************************************************)
(* State                                                                   *)
(***************************************************************************)

VARIABLES
    repo,           \* the directory parse_repo is given: [root, git]
    pc,             \* the stage parse_repo is about to run
    run,            \* which run over the directory this is (1 or 2)
    first_run,      \* the nodes and edges the first run returned
    commit_counts,  \* parse_repo's local commit_counts
    nodes,          \* parse_repo's local nodes
    file_map,       \* parse_repo's local file_map (a set)
    iter_order,     \* the order in which stage 3 iterated file_map (<<>> in the other stages)
    edges,          \* parse_repo's local edges
    tree,           \* parse_repo's local directory_tree
    current_repo_path,  \* main.py's global: 0 is None, k is the k-th session's directory
    on_disk,            \* the session directories that exist under temp_repos
    explanation_cache,  \* main.py's global: the code hashes with a cached explanation
    sessions,           \* the number of session ids clone_repository has generated
    last_clone,         \* the session of the most recent successful clone (0: none)
    google_api_key,     \* main.py's GOOGLE_API_KEY: whether the environment sets it
    response            \* the status and handler of the last HTTP response

parse_vars == <<repo, pc, run, first_run, commit_counts, nodes, file_map, iter_order, edges, tree>>

http_vars ==
    <<current_repo_path, on_disk, explanation_cache, sessions, last_clone, google_api_key, response>>

vars == <<parse_vars, http_vars>>

(***************************************************************************)
(* The directories parse_repo is run on                                    *)
(***************************************************************************)

\* the most source files a repository of import statements holds
MaxFiles == 3

\* the most entries of a directory listing
MaxEntries == 3

\* the most lines of a file
MaxLoc == 2

\* the deepest history of a path
MaxHistory == 60

\* import a (after a relative import) | import a, b | from b import x | import u.a | a syntax error
PyOptions ==
    <<PyFile(<<ImportFrom(""), Import(<<"a">>)>>),
      PyFile(<<Import(<<"a", "b">>)>>),
      PyFile(<<ImportFrom("b")>>),
      PyFile(<<Import(<<"u.a">>)>>),
      PyBroken>>

JsOptions ==
    <<RegexFile(<<<<"./b", "">>>>),
      RegexFile(<<<<"", "./u/a.js">>>>)>>

JavaOptions == <<RegexFile(<<"com.u.B">>)>>

\* the source files a repository may hold: in the root, then in the directory u
RootSlots ==
    <<[name |-> "a.py", options |-> PyOptions],
      [name |-> "a.py-b.py", options |-> PyOptions],
      [name |-> "b.py-a.py", options |-> PyOptions],
      [name |-> "b.js", options |-> JsOptions],
      [name |-> "B.java", options |-> JavaOptions]>>

SubSlots ==
    <<[name |-> "a.py", options |-> PyOptions],
      [name |-> "B.java", options |-> JavaOptions]>>

\* the files of the slots a choice selects (0: absent, k: the slot's k-th content)
RECURSIVE Chosen(_, _, _)
Chosen(slots, choice, i) ==
    IF i > Len(slots) THEN <<>>
    ELSE (IF choice[i] = 0 THEN <<>>
          ELSE <<File(slots[i].name, slots[i].options[choice[i]])>>)
         \o Chosen(slots, choice, i + 1)

Choices(slots) ==
    {c \in [1..Len(slots) -> 0..Len(PyOptions)] : \A i \in 1..Len(slots) : c[i] <= Len(slots[i].options)}

Present(choice) == Cardinality({i \in DOMAIN choice : choice[i] /= 0})

\* repositories of source files that import each other, without history
ImportRepos ==
    {[root |-> Dir("repo", TRUE,
                   Chosen(RootSlots, c[1], 1)
                   \o (IF Present(c[2]) = 0 THEN <<>>
                       ELSE <<Dir("u", TRUE, Chosen(SubSlots, c[2], 1))>>)),
      git |-> NoHistory] :
        c \in {cc \in Choices(RootSlots) \X Choices(SubSlots) :
                  Present(cc[1]) + Present(cc[2]) \in 1..MaxFiles}}

HistoryDepths == {1, HistoryCap - 1, HistoryCap, HistoryCap + 1, MaxHistory}

Blobs(path) ==
    {[path |-> path, type |-> "blob", history |-> h, lookup_ok |-> ok] :
        <<h, ok>> \in (HistoryDepths \X {TRUE}) \cup {<<1, FALSE>>}}

\* repositories with a history: a.py and u/b.js tracked, the traversal of the head
\* tree complete or cut short
HistoryRepos ==
    {[root |-> Dir("repo", TRUE,
                   <<File("a.py", t), File("README.md", TextFile(1, TRUE)),
                     Dir("u", TRUE, <<File("b.js", RegexFile(<<>>))>>)>>),
      git |-> g] :
        <<t, g>> \in
            ({TextFile(n, TRUE) : n \in 0..MaxLoc} \cup {TextFile(MaxLoc, FALSE)})
            \X ({[opens |-> TRUE,
                  entries |-> <<[path |-> "README.md", type |-> "blob", history |-> 1,
                                 lookup_ok |-> TRUE],
                                b[1],
                                [path |-> "u", type |-> "tree", history |-> 1,
                                 lookup_ok |-> TRUE],
                                b[2]>>,
                  raises_after |-> r] :
                    <<b, r>> \in (Blobs("a.py") \X Blobs("u/b.js")) \X (-1..4)}
                \cup {NoHistory})}

\* what a directory listing may hold besides source files
TreeEntries ==
    {File("a.txt", NoContent), File("B.txt", NoContent), File("A.txt", NoContent),
     File(".env", NoContent), File("b.py", PyFile(<<>>)),
     Dir("src", TRUE, <<File("b.txt", NoContent), Dir(".cache", TRUE, <<>>),
                        File("A.txt", NoContent), Dir("lib", FALSE, <<>>)>>),
     Dir("src", FALSE, <<File("b.txt", NoContent)>>),
     Dir(".git", TRUE, <<File("HEAD", NoContent)>>),
     Dir("Lib", TRUE, <<>>)}

\* the listings of at most MaxEntries entries, in any order, names distinct
Listings ==
    UNION {{l \in [1..n -> TreeEntries] : \A i, j \in 1..n : l[i].name = l[j].name => i = j} :
              n \in 0..MaxEntries}

\* repositories that exercise the directory tree
TreeRepos == {[root |-> Dir("repo", TRUE, l), git |-> NoHistory] : l \in Listings}

Repos == ImportRepos \cup HistoryRepos \cup TreeRepos

\* the values of parse_repo's locals before it runs
Fresh ==
    /\ commit_counts = <<>>
    /\ nodes = <<>>
    /\ file_map = {}
    /\ iter_order = <<>>
    /\ edges = <<>>
    /\ tree = [name |-> "", type |-> "folder", children |-> <<>>]

HttpIdle ==
    /\ current_repo_path = 0
    /\ on_disk = {}
    /\ explanation_cache = {}
    /\ sessions = 0
    /\ last_clone = 0
    /\ response = [handler |-> "none", status |-> 0, detail |-> ""]

Init ==
    /\ repo \in Repos
    /\ pc = "git"
    /\ run = 1
    /\ first_run = [nodes |-> <<>>, edges |-> <<>>]
    /\ Fresh
    /\ HttpIdle
    /\ google_api_key = FALSE

(***************************************************************************)
(* parse_repo, stage by stage                                              *)
(***************************************************************************)

GitAnalysis ==
    /\ pc = "git"
    /\ commit_counts' = AnalyzeHistory(repo.git)
    /\ pc' = "inventory"
    /\ UNCHANGED <<repo, run, first_run, nodes, file_map, iter_order, edges, tree, http_vars>>

Inventory ==
    /\ pc = "inventory"
    /\ nodes' = BuildNodes(Walk(repo.root, ""), commit_counts, 1)
    /\ file_map' = {nodes'[i].id : i \in 1..Len(nodes')}
    /\ pc' = "imports"
    /\ UNCHANGED <<repo, run, first_run, commit_counts, iter_order, edges, tree, http_vars>>

AnalyzeImports ==
    /\ pc = "imports"
    /\ LET extracted == Extracted(repo.root, nodes)
       IN  \E order \in IterationOrders(file_map) :
              /\ iter_order' = order
              /\ edges' = EdgesOfNodes(nodes, extracted, order, edges, 1)
    /\ pc' = "cycles"
    /\ UNCHANGED <<repo, run, first_run, commit_counts, nodes, file_map, tree, http_vars>>

CycleDetection ==
    /\ pc = "cycles"
    /\ edges' = TagEdges(edges)
    /\ iter_order' = <<>>
    /\ pc' = "tree"
    /\ UNCHANGED <<repo, run, first_run, commit_counts, nodes, file_map, tree, http_vars>>

BuildTree ==
    /\ pc = "tree"
    /\ tree' = get_directory_structure(repo.root)
    /\ pc' = "done"
    /\ UNCHANGED <<repo, run, first_run, commit_counts, nodes, file_map, iter_order, edges, http_vars>>

Next ==
    \/ GitAnalysis
    \/ Inventory
    \/ AnalyzeImports
    \/ CycleDetection
    \/ BuildTree

Spec == Init /\ [][Next]_vars

(***************************************************************************)
(* A second run of parse_repo over the same, unchanged directory           *)
(***************************************************************************)

Rerun ==
    /\ pc = "done"
    /\ run = 1
    /\ first_run' = [nodes |-> nodes, edges |-> edges]
    /\ run' = 2
    /\ pc' = "git"
    /\ commit_counts' = <<>>
    /\ nodes' = <<>>
    /\ file_map' = {}
    /\ iter_order' = <<>>
    /\ edges' = <<>>
    /\ tree' = [name |-> "", type |-> "folder", children |-> <<>>]
    /\ UNCHANGED <<repo, http_vars>>

NextTwice ==
    \/ Next
    \/ Rerun

SpecTwice == Init /\ [][NextTwice]_vars

(***************************************************************************)
(* main.py: the HTTP handlers and file_service.py                          *)
(***************************************************************************)

\* the most sessions (calls of clone_repository) of one service process
MaxSessions == 3

\* the number of distinct code snippets sent to /explain
MaxCodes == 2

\* delete_repository(repo_path): nothing when the path does not exist; rmtree either
\* removes the directory or raises, which is caught and leaves it in place
delete_repository(disk, repo_path, rmtree_ok) ==
    IF repo_path \in disk /\ rmtree_ok THEN disk \ {repo_path} ELSE disk

\* clone_repository(url) into the fresh directory `session`: the disk after it
\* (a failed clone leaves no directory behind and raises)
clone_repository(disk, session, clone_ok) ==
    IF clone_ok THEN disk \cup {session} ELSE disk

ParseIdle ==
    /\ repo = [root |-> Dir("repo", TRUE, <<>>), git |-> NoHistory]
    /\ pc = "idle"
    /\ run = 1
    /\ first_run = [nodes |-> <<>>, edges |-> <<>>]
    /\ Fresh

InitHttp ==
    /\ ParseIdle
    /\ HttpIdle
    /\ google_api_key \in BOOLEAN

\* POST /visualize; the outcomes of rmtree, of the clone and of parse_repo are inputs
Visualize ==
    /\ sessions < MaxSessions
    /\ \E rmtree_ok \in BOOLEAN, clone_ok \in BOOLEAN, parse_ok \in BOOLEAN :
          LET after_delete ==
                  IF current_repo_path /= 0 /\ current_repo_path \in on_disk
                  THEN delete_repository(on_disk, current_repo_path, rmtree_ok)
                  ELSE on_disk
              session == sessions + 1
          IN  /\ explanation_cache' = {}
              /\ sessions' = session
              /\ on_disk' = clone_repository(after_delete, session, clone_ok)
              /\ current_repo_path' = IF clone_ok THEN session ELSE current_repo_path
              /\ last_clone' = IF clone_ok THEN session ELSE last_clone
              /\ response' = [handler |-> "visualize",
                              status |-> IF clone_ok /\ parse_ok THEN 200 ELSE 500,
                              detail |-> IF ~clone_ok THEN "Failed to clone repository"
                                         ELSE IF ~parse_ok THEN "analysis failed"
                                         ELSE "graph"]
    /\ UNCHANGED <<parse_vars, google_api_key>>

\* POST /content; whether request.path names a file of the repository and whether
\* reading it succeeds are inputs
Content ==
    /\ \E in_repo \in BOOLEAN, read_ok \in BOOLEAN :
          response' =
              IF current_repo_path = 0
              THEN [handler |-> "content", status |-> 400, detail |-> "No repository loaded."]
              ELSE IF ~(current_repo_path \in on_disk /\ in_repo)
              THEN [handler |-> "content", status |-> 404, detail |-> "File not found"]
              ELSE IF read_ok
              THEN [handler |-> "content", status |-> 200, detail |-> "code"]
              ELSE [handler |-> "content", status |-> 500, detail |-> "Error reading file"]
    /\ UNCHANGED <<parse_vars, current_repo_path, on_disk, explanation_cache, sessions,
                   last_clone, google_api_key>>

\* POST /explain; code_hash identifies request.code, ai_ok is whether any of the
\* models answers
Explain ==
    /\ \E code_hash \in 1..MaxCodes, ai_ok \in BOOLEAN :
          /\ explanation_cache' =
                IF google_api_key /\ code_hash \notin explanation_cache /\ ai_ok
                THEN explanation_cache \cup {code_hash}
                ELSE explanation_cache
          /\ response' = [handler |-> "explain", status |-> 200,
                          detail |-> IF ~google_api_key THEN "API Key not configured"
                                     ELSE IF code_hash \in explanation_cache THEN "cached"
                                     ELSE IF ai_ok THEN "generated"
                                     ELSE "AI Error"]
    /\ UNCHANGED <<parse_vars, current_repo_path, on_disk, sessions, last_clone, google_api_key>>

NextHttp ==
    \/ Visualize
    \/ Content
    \/ Explain

SpecHttp == InitHttp /\ [][NextHttp]_vars

(***************************************************************************)
(* Properties                                                              *)
(***************************************************************************)

NodeIds == {nodes[i].id : i \in 1..Len(nodes)}

\* what stage 3 hands to create_edge for each node of this state
References == Extracted(repo.root, nodes)

\* C1: no edge of the edge list has source = target, at any point of any run.
NoSelfLoops == \A i \in 1..Len(edges) : edges[i].source /= edges[i].target

\* a finished run with edges in which some file's reference matched the file itself
SelfMatchSkipped ==
    /\ pc = "done"
    /\ edges /= <<>>
    /\ \E i \in 1..Len(nodes) : \E j \in 1..Len(References[i]) :
          Matches(nodes[i].id, References[i][j])

\* C2: every edge's source and target is the id of a node of the node list.
EdgesReferToNodes ==
    \A i \in 1..Len(edges) : edges[i].source \in NodeIds /\ edges[i].target \in NodeIds

\* a finished run with edges in which some reference matched no known file
UnresolvedReferenceDropped ==
    /\ pc = "done"
    /\ edges /= <<>>
    /\ \E i \in 1..Len(nodes) : \E j \in 1..Len(References[i]) :
          \A known_file \in file_map : ~Matches(known_file, References[i][j])

\* the vertices reachable from S along arcs
RECURSIVE Closure(_, _)
Closure(arcs, S) ==
    LET T == S \cup {a[2] : a \in {x \in arcs : x[1] \in S}}
    IN  IF T = S THEN S ELSE Closure(arcs, T)

\* the edge lies on a simple cycle: its target leads back to its source
OnCycle(e) == e.source \in Closure(Arcs(edges), {e.target})

\* C3: after cycle detection an edge is flagged isCyclic exactly when it lies on a
\* simple cycle of the graph of the edge list, whatever characters the ids contain.
CycleTagsExact ==
    pc \in {"tree", "done"} => \A i \in 1..Len(edges) : edges[i].isCyclic = OnCycle(edges[i])

EdgeSet(es) == {<<es[i].source, es[i].target>> : i \in 1..Len(es)}

\* C4: a second run over the unchanged directory returns the same nodes and the
\* same set of edges as the first, whatever order file_map is iterated in.
RunsAgree ==
    (run = 2 /\ pc = "done") =>
        /\ nodes = first_run.nodes
        /\ EdgeSet(edges) = EdgeSet(first_run.edges)

\* the positions of the iteration order whose id matches the reference
Hits(target_suffix) ==
    {k \in 1..Len(iter_order) : Matches(iter_order[k], target_suffix)}

EdgeTo(source, known_file) ==
    [id |-> source \o "-" \o known_file, source |-> source, target |-> known_file,
     isCyclic |-> FALSE]

\* one reference's edge when the first match is final: none when it is the source
FirstMatchOrNothing(source, target_suffix) ==
    IF Hits(target_suffix) = {} \/ iter_order[Min(Hits(target_suffix))] = source
    THEN <<>>
    ELSE <<EdgeTo(source, iter_order[Min(Hits(target_suffix))])>>

\* one reference's edge when a match on the source is passed over
FirstOtherMatch(source, target_suffix) ==
    LET others == {k \in Hits(target_suffix) : iter_order[k] /= source}
    IN  IF others = {} THEN <<>> ELSE <<EdgeTo(source, iter_order[Min(others)])>>

\* the edges of all references, node by node and reference by reference
RECURSIVE EdgesByRule(_, _, _, _)
EdgesByRule(skip_source, refs, i, j) ==
    IF i > Len(nodes) THEN <<>>
    ELSE IF j > Len(refs[i]) THEN EdgesByRule(skip_source, refs, i + 1, 1)
    ELSE (IF skip_source THEN FirstOtherMatch(nodes[i].id, refs[i][j])
          ELSE FirstMatchOrNothing(nodes[i].id, refs[i][j]))
         \o EdgesByRule(skip_source, refs, i, j + 1)

\* C5 as stated: each reference resolves to the first matching known id in iteration
\* order, and yields no edge when that id is the source or when nothing matches.
FirstMatchIsFinal == pc = "cycles" => edges = EdgesByRule(FALSE, References, 1, 1)

\* C5 as amended: each reference resolves to the first known id in iteration order
\* that matches and is not the source; exactly one edge to it is appended, and none
\* when no known id other than the source matches.
FirstOtherMatchWins == pc = "cycles" => edges = EdgesByRule(TRUE, References, 1, 1)

\* stage 3 has passed over a match on the source and appended an edge to a later match
LaterMatchTaken ==
    /\ pc = "cycles"
    /\ \E i \in 1..Len(nodes) : \E j \in 1..Len(References[i]) :
          /\ Hits(References[i][j]) /= {}
          /\ iter_order[Min(Hits(References[i][j]))] = nodes[i].id
          /\ FirstOtherMatch(nodes[i].id, References[i][j]) /= <<>>

\* every module an import statement names: each alias of `import`, the module of `from`
RECURSIVE NamedModules(_, _)
NamedModules(ast, i) ==
    IF i > Len(ast) THEN <<>>
    ELSE (IF ast[i].type = "Import" THEN ast[i].names
          ELSE IF ast[i].type = "ImportFrom" /\ ast[i].module /= "" THEN <<ast[i].module>>
          ELSE <<>>)
         \o NamedModules(ast, i + 1)

\* the references when every named module of a parseable Python file is emitted
AllNamedReferences ==
    [i \in 1..Len(nodes) |->
        LET content == ContentAt(repo.root, nodes[i].id)
        IN  IF EndsWith(nodes[i].id, ".py") /\ content.readable /\ content.parses
            THEN LET named == NamedModules(content.ast, 1)
                 IN  [k \in 1..Len(named) |-> Replace(named[k], ".", "/") \o ".py"]
            ELSE References[i]]

\* C6: every module named by an import statement of a parseable Python file, each
\* name of a multi-name statement included, is passed to edge resolution.
EveryImportedNameResolved ==
    pc = "cycles" => edges = EdgesOfNodes(nodes, AllNamedReferences, iter_order, <<>>, 1)

\* C7: every node has loc >= 0 and 0 <= churn <= 50.
LocAndChurnBounded ==
    \A i \in 1..Len(nodes) :
        /\ nodes[i].data.loc >= 0
        /\ nodes[i].data.churn >= 0
        /\ nodes[i].data.churn <= 50

\* a finished run with a node whose path has more than 50 commits and churn 50
DeepHistoryCapped ==
    /\ pc = "done"
    /\ \E i \in 1..Len(nodes) : \E k \in 1..Len(repo.git.entries) :
          /\ repo.git.entries[k].path = nodes[i].id
          /\ repo.git.entries[k].history > 50
          /\ nodes[i].data.churn = 50

Churn0Everywhere == \A i \in 1..Len(nodes) : nodes[i].data.churn = 0

\* C8 as stated: when the repository does not open or the walk of the head tree
\* raises, the churn mapping is empty and every node has churn 0.
FailedHistoryLeavesNoCounts ==
    (pc \notin {"git", "idle"} /\ (~repo.git.opens \/ repo.git.raises_after /= -1)) =>
        /\ DOMAIN commit_counts = {}
        /\ Churn0Everywhere

\* the count the mapping holds for an entry whose lookup ran
CountFor(entry) ==
    IF ~entry.lookup_ok THEN 0
    ELSE IF entry.history <= 50 THEN entry.history
    ELSE 50

\* C8 as amended: when the repository does not open the churn mapping is empty and
\* every node has churn 0; when the walk of the head tree raises, the blobs it
\* yielded before raising keep their counts and no other path is in the mapping;
\* a blob whose own lookup fails is in the mapping with 0 and the blobs after it
\* are still counted; each node's churn is its path's count, 0 for a path not in
\* the mapping; and the run goes on to the inventory whatever the history did.
HistoryDegradesPerPath ==
    /\ pc \notin {"git", "idle"} =>
          /\ ~repo.git.opens => (DOMAIN commit_counts = {} /\ Churn0Everywhere)
          /\ \A k \in 1..Len(repo.git.entries) :
                LET entry   == repo.git.entries[k]
                    yielded == /\ repo.git.opens
                               /\ entry.type = "blob"
                               /\ (repo.git.raises_after = -1 \/ k <= repo.git.raises_after)
                IN  IF yielded
                    THEN /\ entry.path \in DOMAIN commit_counts
                         /\ commit_counts[entry.path] = CountFor(entry)
                    ELSE entry.path \notin DOMAIN commit_counts
          /\ \A i \in 1..Len(nodes) :
                nodes[i].data.churn =
                    IF nodes[i].id \in DOMAIN commit_counts
                    THEN commit_counts[nodes[i].id]
                    ELSE 0
    /\ pc = "git" => ENABLED GitAnalysis
    /\ pc = "inventory" => ENABLED Inventory

\* a finished run whose walk raised part-way: one node counted, another left out
PartialHistoryKept ==
    /\ pc = "done"
    /\ repo.git.opens
    /\ repo.git.raises_after /= -1
    /\ \E i, j \in 1..Len(nodes) :
          /\ nodes[i].data.churn > 0
          /\ nodes[j].id \notin DOMAIN commit_counts

IsFolder(node) == node.type = "folder"

\* the children of one folder node are ordered and free of hidden names
ChildrenOrdered(children) ==
    /\ \A i \in 1..Len(children) : ~StartsWith(children[i].name, ".")
    /\ \A i, j \in 1..Len(children) :
          i < j =>
              /\ IsFolder(children[j]) => IsFolder(children[i])
              /\ IsFolder(children[i]) = IsFolder(children[j]) =>
                    ~StrLess(Lower(children[j].name), Lower(children[i].name))

\* the folder node built for dir, and every folder node below it
RECURSIVE TreeOk(_, _)
TreeOk(dir, node) ==
    /\ IsFolder(node)
    /\ node.name = dir.name
    /\ ChildrenOrdered(node.children)
    /\ ~dir.readable => node.children = <<>>
    /\ \A i \in 1..Len(node.children) :
          IsFolder(node.children[i]) =>
              \E k \in 1..Len(dir.items) :
                  /\ dir.items[k].isdir
                  /\ dir.items[k].name = node.children[i].name
                  /\ TreeOk(dir.items[k], node.children[i])

\* C9: in every folder node of the tree no child's name starts with ".", folders
\* precede files, names are in non-decreasing case-insensitive order within the
\* folders and within the files, and a directory that cannot be listed is a folder
\* node with no children.
TreeOrdered == pc = "done" => TreeOk(repo.root, tree)

\* a finished run whose tree holds the folder src with an unlistable folder first,
\* then files in case-insensitive order, its hidden entry left out
NestedFolderOrdered ==
    /\ pc = "done"
    /\ \E i \in 1..Len(tree.children) :
          /\ tree.children[i].name = "src"
          /\ IsFolder(tree.children[i])
          /\ Len(tree.children[i].children) = 3
          /\ tree.children[i].children[1] = [name |-> "lib", type |-> "folder", children |-> <<>>]
          /\ tree.children[i].children[2].name = "A.txt"
          /\ tree.children[i].children[3].name = "b.txt"

\* C10: whenever current_repo_path is set it names the directory of the most recent
\* successful clone, and that directory still exists.
SessionPathIsLive ==
    current_repo_path /= 0 =>
        /\ current_repo_path = last_clone
        /\ current_repo_path \in on_disk

====
